---- MODULE Spec2Model ----
(***************************************************************************)
(* Model of the termdash activity classifier (pkg/termdash/                *)
(* statusdetector.go).  Text is a sequence of one-character strings.  Time *)
(* is a discrete clock `now`; time.Now() reads it and time.Since(t) is     *)
(* now - t.  DebounceInterval and IdleTimeout are given in clock ticks,    *)
(* scaled down from 500 ms and 10 s but keeping DebounceInterval <         *)
(* IdleTimeout; MaxLineBufferSize is scaled down from 4096 bytes.          *)
(* Every method body runs with sd.mu held, so each one is a single action. *)
(* The transcript recorder is modelled the same way, with its flush        *)
(* threshold and flush interval scaled down from 1024 bytes and 5 s.       *)
(* LockSpec splits a call into reaching mu.Lock(), the body and the        *)
(* deferred mu.Unlock(), next to the goroutines started for the callbacks. *)
(***************************************************************************)
EXTENDS Integers, Sequences, FiniteSets, TLC

\* ---- bounds of the model ----
\* The clock stops advancing at MaxTime.
MaxTime == 6
\* WindowSpec feeds at most MaxFed characters, in chunks of at most MaxChunkLen.
MaxFed == 6
MaxChunkLen == 2
\* RecSpec accepts at most MaxEntries transcript entries and counts at most MaxDup
\* repeats of one animation frame.
MaxEntries == 3
MaxDup == 2
\* The clock of RecSpec stops advancing at MaxRecTime.
MaxRecTime == 1
\* LockSpec lets a call of the recorder begin while fewer than MaxLockEntries
\* entries are accepted or awaited.
MaxLockEntries == 2
\* CleanSpec, StripSpec and CandSpec build texts of at most these lengths.
MaxCleanLen == 6
MaxStripLen == 4
MaxCandLen == 5

\* ---- program constants ----
StatusActive == "active"
StatusNeedsInput == "needs-input"
StatusIdle == "idle"
StatusExited == "exited"
IdleTimeout == 3
DebounceInterval == 2
MaxLineBufferSize == 3
TranscriptFlushThreshold == 4
TranscriptFlushInterval == 1
\* The zero time.Time: the value of a time field the constructor leaves unset.
ZeroTime == -100

Statuses == {StatusActive, StatusNeedsInput, StatusIdle, StatusExited}

\* ---- characters ----
ESC == "ESC"
BEL == "BEL"
NL == "\n"
Chevron == "CHEVRON"
Digits == {"0", "1", "2", "3", "4", "5", "6", "7", "8", "9"}
Letters ==
  {"a", "b", "c", "d", "e", "f", "g", "h", "i", "j", "k", "l", "m", "n", "o", "p", "q",
   "r", "s", "t", "u", "v", "w", "x", "y", "z", "A", "B", "C", "D", "E", "F", "G", "H",
   "I", "J", "K", "L", "M", "N", "O", "P", "Q", "R", "S", "T", "U", "V", "W", "X", "Y", "Z"}
\* \s of the regexp package: [\t\n\f\r ]
Spaces == {"\t", "\n", "\f", "\r", " "}

\* The chunks the PTY read loop delivers in this model.
Chunks == {<<>>, <<"a", NL>>, <<">", " ">>}

VARIABLES now, lineBuffer, currentStatus, lastOutputAt, lastChangeAt, idleTimer,
          stopped, firedCallbacks, notifications, lastCall, plainFast,
          fed, twinBuffer, twinPending,
          trBuffer, bufferBytes, flushTimer, firedFlushes, trStopped, lastOutput,
          dupCount, batches, accepted, frameRun, prevClean, recCall,
          sdMu, trMu, caller, tasks,
          givenText, returned

\* The classifier and its instrumentation.
sdVars == <<now, lineBuffer, currentStatus, lastOutputAt, lastChangeAt, idleTimer,
            stopped, firedCallbacks, notifications, lastCall, plainFast>>

\* The record of the bytes fed, and a second line buffer that is fed the same
\* bytes in other chunks; both are kept by WindowSpec only.
winVars == <<fed, twinBuffer, twinPending>>

\* The transcript recorder: tr.buffer, tr.bufferBytes, tr.flushTimer, the timer
\* functions started and not yet run, tr.stopped, tr.lastOutput, tr.dupCount and
\* the batches handed to flushFn goroutines, in the order they were started.
trVars == <<trBuffer, bufferBytes, flushTimer, firedFlushes, trStopped, lastOutput,
            dupCount, batches>>

\* Instrumentation of the recorder: every entry appended to tr.buffer, in
\* order; the length of the current run of identical animation frames fed to
\* RecordOutput and the cleaned text of the latest output that was not empty;
\* the latest call and the branch it took.
trGhost == <<accepted, frameRun, prevClean, recCall>>

recVars == <<trVars, trGhost>>

\* The locks and the threads: the holders of sd.mu and tr.mu, the thread that
\* calls the operations, and the goroutines started for the status listener
\* and for flushFn, in the order they were started.
lockVars == <<sdMu, trMu, caller, tasks>>

\* The text given to a function of the program and what the function
\* returned for it.
pureVars == <<givenText, returned>>

vars == <<sdVars, winVars, recVars, lockVars, pureVars>>

\* The literal texts of promptPatterns.
LitYes == <<"y", "e", "s">>
LitNo == <<"n", "o">>
LitYSlashN == <<"y", "/", "n">>
LitYKey == <<"(", "Y", ")", "e", "s">>
LitNKey == <<"(", "N", ")", "o">>
LitProceed == <<"D", "o", " ", "y", "o", "u", " ", "w", "a", "n", "t", " ", "t", "o", " ", "p", "r", "o", "c", "e", "e", "d">>
LitPressEnter == <<"P", "r", "e", "s", "s", " ", "E", "n", "t", "e", "r", " ", "t", "o", " ", "c", "o", "n", "t", "i", "n", "u", "e">>
LitYnBracket == <<"[", "Y", "/", "n", "]">>
LitWaitingFor == <<"w", "a", "i", "t", "i", "n", "g", " ", "f", "o", "r", " ">>
LitInput == <<"i", "n", "p", "u", "t">>
LitResponse == <<"r", "e", "s", "p", "o", "n", "s", "e">>

\* ---- text utilities ----
\* strings.Split(text, "\n")
RECURSIVE SplitLines(_)
SplitLines(text) ==
  IF \A i \in 1..Len(text) : text[i] # NL
  THEN <<text>>
  ELSE LET i == CHOOSE k \in 1..Len(text) :
                  text[k] = NL /\ \A j \in 1..(k - 1) : text[j] # NL
       IN <<SubSeq(text, 1, i - 1)>> \o SplitLines(SubSeq(text, i + 1, Len(text)))

\* strings.Join(lines, "\n")
RECURSIVE JoinLines(_)
JoinLines(lines) ==
  IF Len(lines) = 0 THEN <<>>
  ELSE IF Len(lines) = 1 THEN lines[1]
  ELSE lines[1] \o <<NL>> \o JoinLines(Tail(lines))

\* Mutant of getLastLines: the whole text is returned.
getLastLinesAll(text, n) == text

getLastLines(text, n) ==
  LET lines == SplitLines(text)
  IN IF Len(lines) <= n THEN text
     ELSE JoinLines(SubSeq(lines, Len(lines) - n + 1, Len(lines)))

\* The first index >= i of text whose character is not in set; Len(text) + 1 if none.
SkipWhile(text, i, set) ==
  CHOOSE j \in i..(Len(text) + 1) :
    /\ \A k \in i..(j - 1) : text[k] \in set
    /\ (j <= Len(text) => text[j] \notin set)

\* Mutant of CsiEnd: the parameters between "[" and the letter are not matched.
CsiEndNoParams(text, i) ==
  IF i + 2 <= Len(text) /\ text[i] = ESC /\ text[i + 1] = "[" /\ text[i + 2] \in Letters
  THEN i + 2
  ELSE 0

\* The index of the last character of a match of \x1b\[[0-9;]*[a-zA-Z] starting at i;
\* 0 if there is none.
CsiEnd(text, i) ==
  IF i + 1 <= Len(text) /\ text[i] = ESC /\ text[i + 1] = "["
  THEN LET j == SkipWhile(text, i + 2, Digits \cup {";"})
       IN IF j <= Len(text) /\ text[j] \in Letters THEN j ELSE 0
  ELSE 0

\* The same for \x1b\][^\x07]*\x07.
OscEnd(text, i) ==
  IF i + 1 <= Len(text) /\ text[i] = ESC /\ text[i + 1] = "]"
  THEN LET j == SkipWhile(text, i + 2, {text[k] : k \in 1..Len(text)} \ {BEL})
       IN IF j <= Len(text) THEN j ELSE 0
  ELSE 0

\* The same for \x1b\[[0-9;]*m.
SgrEnd(text, i) ==
  IF i + 1 <= Len(text) /\ text[i] = ESC /\ text[i + 1] = "["
  THEN LET j == SkipWhile(text, i + 2, Digits \cup {";"})
       IN IF j <= Len(text) /\ text[j] = "m" THEN j ELSE 0
  ELSE 0

\* ansiRegex: the alternatives are tried in order at each position.
AnsiEnd(text, i) ==
  IF CsiEnd(text, i) # 0 THEN CsiEnd(text, i)
  ELSE IF OscEnd(text, i) # 0 THEN OscEnd(text, i)
  ELSE SgrEnd(text, i)

\* ReplaceAllString(text, ""): leftmost matches, left to right, not overlapping.
RECURSIVE StripFrom(_, _)
StripFrom(text, i) ==
  IF i > Len(text) THEN <<>>
  ELSE IF AnsiEnd(text, i) # 0 THEN StripFrom(text, AnsiEnd(text, i) + 1)
  ELSE <<text[i]>> \o StripFrom(text, i + 1)

stripAnsi(text) == StripFrom(text, 1)

\* lit occurs in text starting at index i.
HasAt(text, i, lit) ==
  /\ i >= 1
  /\ i + Len(lit) - 1 <= Len(text)
  /\ \A k \in 1..Len(lit) : text[i + k - 1] = lit[k]

Contains(text, lit) == \E i \in 1..Len(text) : HasAt(text, i, lit)

\* c\s*$ : c followed by white space up to the end of the text.
EndsWithPrompt(text, c) ==
  \E i \in 1..Len(text) :
    text[i] = c /\ \A j \in (i + 1)..Len(text) : text[j] \in Spaces

\* \?\s*\(?(yes|no|y\/n)\)?
YesNoPrompt(text) ==
  \E i \in 1..Len(text) :
    /\ text[i] = "?"
    /\ LET j == SkipWhile(text, i + 1, Spaces)
           k == IF j <= Len(text) /\ text[j] = "(" THEN j + 1 ELSE j
       IN \E p \in {j, k} :
            \/ HasAt(text, p, LitYes)
            \/ HasAt(text, p, LitNo)
            \/ HasAt(text, p, LitYSlashN)

\* \(Y\)es.*\(N\)o : . matches any character but a newline.
YesNoKeys(text) ==
  \E i \in 1..Len(text) : \E j \in 1..Len(text) :
    /\ HasAt(text, i, LitYKey)
    /\ j >= i + 5
    /\ HasAt(text, j, LitNKey)
    /\ \A k \in (i + 5)..(j - 1) : text[k] # NL

\* promptPatterns, in order.
matchesPrompt(text) ==
  \/ EndsWithPrompt(text, Chevron)
  \/ EndsWithPrompt(text, ">")
  \/ EndsWithPrompt(text, "$")
  \/ YesNoPrompt(text)
  \/ Contains(text, LitProceed)
  \/ YesNoKeys(text)
  \/ Contains(text, LitPressEnter)
  \/ Contains(text, LitYnBracket)
  \/ Contains(text, LitWaitingFor \o LitInput)
  \/ Contains(text, LitWaitingFor \o LitResponse)

\* ---- text utilities of the transcript recorder ----
\* The same as CsiEnd for \x1b\[\?[0-9;]*[a-zA-Z].
PrivateModeEnd(text, i) ==
  IF i + 2 <= Len(text) /\ text[i] = ESC /\ text[i + 1] = "[" /\ text[i + 2] = "?"
  THEN LET j == SkipWhile(text, i + 3, Digits \cup {";"})
       IN IF j <= Len(text) /\ text[j] \in Letters THEN j ELSE 0
  ELSE 0

\* transcriptAnsiRegex: the alternatives of ansiRegex, then the private-mode one.
TranscriptAnsiEnd(text, i) ==
  IF AnsiEnd(text, i) # 0 THEN AnsiEnd(text, i) ELSE PrivateModeEnd(text, i)

RECURSIVE TranscriptStripFrom(_, _)
TranscriptStripFrom(text, i) ==
  IF i > Len(text) THEN <<>>
  ELSE IF TranscriptAnsiEnd(text, i) # 0
  THEN TranscriptStripFrom(text, TranscriptAnsiEnd(text, i) + 1)
  ELSE <<text[i]>> \o TranscriptStripFrom(text, i + 1)

\* strings.ReplaceAll(text, "\r", "")
RECURSIVE RemoveCR(_)
RemoveCR(text) ==
  IF text = <<>> THEN <<>>
  ELSE IF Head(text) = "\r" THEN RemoveCR(Tail(text))
  ELSE <<Head(text)>> \o RemoveCR(Tail(text))

ThreeNewlines == <<NL, NL, NL>>

\* strings.ReplaceAll(text, "\n\n\n", "\n\n"): one pass, left to right.
RECURSIVE ReplaceTriples(_)
ReplaceTriples(text) ==
  IF text = <<>> THEN <<>>
  ELSE IF HasAt(text, 1, ThreeNewlines)
  THEN <<NL, NL>> \o ReplaceTriples(SubSeq(text, 4, Len(text)))
  ELSE <<Head(text)>> \o ReplaceTriples(Tail(text))

\* Mutant of CollapseBlankLines: one pass only.
CollapseOnce(text) == ReplaceTriples(text)

\* The loop of cleanForTranscript: passes are repeated while a triple is left.
RECURSIVE CollapseBlankLines(_)
CollapseBlankLines(text) ==
  IF Contains(text, ThreeNewlines) THEN CollapseBlankLines(ReplaceTriples(text)) ELSE text

\* strings.TrimSpace, for the white space of the model's characters.
RECURSIVE TrimLeft(_)
TrimLeft(text) ==
  IF text # <<>> /\ Head(text) \in Spaces THEN TrimLeft(Tail(text)) ELSE text

RECURSIVE TrimRight(_)
TrimRight(text) ==
  IF text # <<>> /\ text[Len(text)] \in Spaces
  THEN TrimRight(SubSeq(text, 1, Len(text) - 1))
  ELSE text

\* Mutant of TrimSpace: nothing is trimmed.
TrimSpaceNone(text) == text

TrimSpace(text) == TrimRight(TrimLeft(text))

\* The element of a set of one element.
TheOne(S) == CHOOSE v \in S : TRUE

\* The four passes, each applied to the result of the one before.
cleanForTranscript(text) ==
  LET stripped == {TranscriptStripFrom(text, 1)}
      noCR == {RemoveCR(t) : t \in stripped}
      collapsed == {CollapseBlankLines(t) : t \in noCR}
  IN TheOne({TrimSpace(t) : t \in collapsed})

\* The one-byte spinner characters of animationPatterns[0].
SpinnerChars == {"|", "/", "-", "\\"}

\* ^[\s...|/\-\\]+$ : the text is not empty and made of white space and spinner
\* characters only.
SpinnerFrame(text) ==
  text # <<>> /\ \A i \in 1..Len(text) : text[i] \in Spaces \cup SpinnerChars

\* ^\s*\d+% : white space, then digits, then a percent sign, at the start.
ProgressFrame(text) ==
  LET j == SkipWhile(text, 1, Spaces)
      k == SkipWhile(text, j, Digits)
  IN k > j /\ k <= Len(text) /\ text[k] = "%"

isAnimationFrame(text) == SpinnerFrame(text) \/ ProgressFrame(text)

\* The characters of the model whose byte is below 32.
ControlChars == {ESC, BEL, "\t", "\n", "\f", "\r"}

\* What encoding/json writes for one character of a string.
JsonEscapeChar(c) ==
  IF c = "\"" THEN <<"\\", "\"">>
  ELSE IF c = "\\" THEN <<"\\", "\\">>
  ELSE IF c = "\n" THEN <<"\\", "n">>
  ELSE IF c = "\r" THEN <<"\\", "r">>
  ELSE IF c = "\t" THEN <<"\\", "t">>
  ELSE IF c = "\f" THEN <<"\\", "u", "0", "0", "0", "c">>
  ELSE IF c = ESC THEN <<"\\", "u", "0", "0", "1", "b">>
  ELSE IF c = BEL THEN <<"\\", "u", "0", "0", "0", "7">>
  ELSE IF c = "<" THEN <<"\\", "u", "0", "0", "3", "c">>
  ELSE IF c = ">" THEN <<"\\", "u", "0", "0", "3", "e">>
  ELSE IF c = "&" THEN <<"\\", "u", "0", "0", "2", "6">>
  ELSE <<c>>

RECURSIVE JsonEscape(_)
JsonEscape(text) ==
  IF text = <<>> THEN <<>> ELSE JsonEscapeChar(Head(text)) \o JsonEscape(Tail(text))

\* json.Marshal(entry) and the newline after it: one line of the batch, as its
\* three fields.
JsonLine(entry) == [ts |-> entry.ts, type |-> entry.type, text |-> JsonEscape(entry.text)]

\* Mutant of JsonLines: each line overwrites the lines built so far.
JsonLinesLastOnly(entries) ==
  IF Len(entries) = 0 THEN <<>> ELSE <<JsonLine(entries[Len(entries)])>>

\* The lines flush builds from the entries; json.Marshal of a TranscriptEntry
\* does not fail.
JsonLines(entries) == [i \in 1..Len(entries) |-> JsonLine(entries[i])]

\* ---- the classifier ----
NoCall == [op |-> "none", cand |-> "none", res |-> "none"]

\* No function has been applied yet.
NotApplied == [of |-> "none", value |-> <<>>]

\* The states of a mutex: unlocked, locked by the calling thread, locked by
\* the i-th goroutine.
Unlocked == [by |-> "nobody", id |-> 0]
HeldByCaller == [by |-> "caller", id |-> 0]
HeldByTask(i) == [by |-> "task", id |-> i]

\* The calling thread between two calls.
NotCalling == [pc |-> "idle", op |-> "none", data |-> <<>>, cb |-> 0]

\* Both mutexes are unlocked, no call is in progress, no goroutine was started.
InitLocks ==
  /\ sdMu = Unlocked
  /\ trMu = Unlocked
  /\ caller = NotCalling
  /\ tasks = <<>>

\* NewTranscriptRecorder, called at time 0 with a non-nil flushFn.
InitRecorder ==
  /\ trBuffer = <<>>
  /\ bufferBytes = 0
  /\ flushTimer = [active |-> TRUE, when |-> TranscriptFlushInterval]
  /\ firedFlushes = 0
  /\ trStopped = FALSE
  /\ lastOutput = <<>>
  /\ dupCount = 0
  /\ batches = <<>>
  /\ accepted = <<>>
  /\ frameRun = 0
  /\ prevClean = <<>>
  /\ recCall = [op |-> "none", res |-> "none"]

\* Mutant of Init: the constructor does not start the idle timer.
InitNoTimer ==
  /\ now = 0
  /\ lineBuffer = <<>>
  /\ currentStatus = StatusActive
  /\ lastOutputAt = 0
  /\ lastChangeAt = ZeroTime
  /\ idleTimer = [active |-> FALSE, when |-> IdleTimeout]
  /\ stopped = FALSE
  /\ firedCallbacks = 0
  /\ notifications = <<>>
  /\ lastCall = [op |-> "none", cand |-> "none", res |-> "none"]
  /\ plainFast = TRUE
  /\ fed = <<>>
  /\ twinBuffer = <<>>
  /\ twinPending = <<>>
  /\ InitRecorder
  /\ InitLocks
  /\ givenText = <<>>
  /\ returned = NotApplied

\* Mutant of Init: the constructor stamps the time of the last change.
InitChangeStamped ==
  /\ now = 0
  /\ lineBuffer = <<>>
  /\ currentStatus = StatusActive
  /\ lastOutputAt = 0
  /\ lastChangeAt = now
  /\ idleTimer = [active |-> TRUE, when |-> IdleTimeout]
  /\ stopped = FALSE
  /\ firedCallbacks = 0
  /\ notifications = <<>>
  /\ lastCall = [op |-> "none", cand |-> "none", res |-> "none"]
  /\ plainFast = TRUE
  /\ fed = <<>>
  /\ twinBuffer = <<>>
  /\ twinPending = <<>>
  /\ InitRecorder
  /\ InitLocks
  /\ givenText = <<>>
  /\ returned = NotApplied

\* NewStatusDetector, called at time 0 with a non-nil callback.
Init ==
  /\ now = 0
  /\ lineBuffer = <<>>
  /\ currentStatus = StatusActive
  /\ lastOutputAt = 0
  /\ lastChangeAt = ZeroTime
  /\ idleTimer = [active |-> TRUE, when |-> IdleTimeout]
  /\ stopped = FALSE
  /\ firedCallbacks = 0
  /\ notifications = <<>>
  /\ lastCall = NoCall
  /\ plainFast = TRUE
  /\ fed = <<>>
  /\ twinBuffer = <<>>
  /\ twinPending = <<>>
  /\ InitRecorder
  /\ InitLocks
  /\ givenText = <<>>
  /\ returned = NotApplied

\* time.Since(t)
Since(t) == now - t

\* Mutant of SameStatus: the test is missing.
SameStatusNever(newStatus) == FALSE

\* setStatus, first test: the candidate is the current status.
SameStatus(newStatus) == newStatus = currentStatus

\* Mutants of Debounced: no debounce; a window one tick short.
DebouncedNever == FALSE

DebouncedShort == Since(lastChangeAt) < DebounceInterval - 1

\* setStatus, second test: the last accepted change is too recent.
Debounced == Since(lastChangeAt) < DebounceInterval

\* The time setStatus stores in lastChangeAt.
ChangeStamp == now

\* Mutant of Notification: the arguments are swapped.
NotificationSwapped(oldStatus, newStatus) == [old |-> newStatus, new |-> oldStatus]

\* The pair the callback goroutine is started with.
Notification(oldStatus, newStatus) == [old |-> oldStatus, new |-> newStatus]

\* setStatus(newStatus), called by op with sd.mu held.  lastCall records the
\* call and the branch it took.
setStatus(newStatus, op) ==
  IF SameStatus(newStatus)
  THEN /\ UNCHANGED <<currentStatus, lastChangeAt, notifications>>
       /\ lastCall' = [op |-> op, cand |-> newStatus, res |-> "same"]
  ELSE IF Debounced
  THEN /\ UNCHANGED <<currentStatus, lastChangeAt, notifications>>
       /\ lastCall' = [op |-> op, cand |-> newStatus, res |-> "discarded"]
  ELSE /\ currentStatus' = newStatus
       /\ lastChangeAt' = ChangeStamp
       /\ notifications' = Append(notifications, Notification(currentStatus, newStatus))
       /\ lastCall' = [op |-> op, cand |-> newStatus, res |-> "accepted"]

\* Mutant of resetIdleTimer: the old timer is stopped and no new one is armed.
resetIdleTimerForget == [idleTimer EXCEPT !.active = FALSE]

\* The timer resetIdleTimer leaves in sd.idleTimer: the old one is stopped, a
\* new one is armed unless the detector is stopped.
resetIdleTimer ==
  IF ~stopped
  THEN [active |-> TRUE, when |-> now + IdleTimeout]
  ELSE [idleTimer EXCEPT !.active = FALSE]

\* Mutant of AppendTail: on overflow the head is kept, not the tail.
AppendTailKeepsHead(buffer, data) ==
  LET joined == buffer \o data
  IN IF Len(joined) > MaxLineBufferSize
     THEN SubSeq(joined, 1, MaxLineBufferSize)
     ELSE joined

\* The line buffer after appending data and keeping the tail.
AppendTail(buffer, data) ==
  LET joined == buffer \o data
  IN IF Len(joined) > MaxLineBufferSize
     THEN SubSeq(joined, Len(joined) - MaxLineBufferSize + 1, Len(joined))
     ELSE joined

\* Mutant of Candidate: the prompt test is missing.
CandidateAlwaysActive(buffer) == StatusActive

\* The candidate ProcessOutput computes from the line buffer.
Candidate(buffer) ==
  IF matchesPrompt(stripAnsi(getLastLines(buffer, 3)))
  THEN StatusNeedsInput
  ELSE StatusActive

\* Mutant of ProcessOutput: the chunk is classified, not the line buffer.
ProcessOutputPerChunk(data) ==
  IF stopped
  THEN /\ lastCall' = [op |-> "ProcessOutput", cand |-> "none", res |-> "stopped"]
       /\ UNCHANGED <<now, lineBuffer, currentStatus, lastOutputAt, lastChangeAt,
                      idleTimer, stopped, firedCallbacks, notifications, plainFast>>
  ELSE /\ lastOutputAt' = now
       /\ idleTimer' = resetIdleTimer
       /\ lineBuffer' = AppendTail(lineBuffer, data)
       /\ setStatus(Candidate(data), "ProcessOutput")
       /\ plainFast' = (plainFast /\ Since(lastOutputAt) < DebounceInterval
                          /\ Candidate(lineBuffer') = StatusActive)
       /\ UNCHANGED <<now, stopped, firedCallbacks>>

ProcessOutput(data) ==
  IF stopped
  THEN /\ lastCall' = [op |-> "ProcessOutput", cand |-> "none", res |-> "stopped"]
       /\ UNCHANGED <<now, lineBuffer, currentStatus, lastOutputAt, lastChangeAt,
                      idleTimer, stopped, firedCallbacks, notifications, plainFast>>
  ELSE /\ lastOutputAt' = now
       /\ idleTimer' = resetIdleTimer
       /\ lineBuffer' = AppendTail(lineBuffer, data)
       /\ setStatus(Candidate(lineBuffer'), "ProcessOutput")
       /\ plainFast' = (plainFast /\ Since(lastOutputAt) < DebounceInterval
                          /\ Candidate(lineBuffer') = StatusActive)
       /\ UNCHANGED <<now, stopped, firedCallbacks>>

\* Mutant of SetExited: Exited is stored without going through setStatus.
SetExitedForced ==
  /\ currentStatus' = StatusExited
  /\ lastChangeAt' = now
  /\ notifications' = Append(notifications, Notification(currentStatus, StatusExited))
  /\ lastCall' = [op |-> "SetExited", cand |-> StatusExited, res |-> "accepted"]
  /\ plainFast' = FALSE
  /\ UNCHANGED <<now, lineBuffer, lastOutputAt, idleTimer, stopped, firedCallbacks>>

SetExited ==
  /\ setStatus(StatusExited, "SetExited")
  /\ plainFast' = FALSE
  /\ UNCHANGED <<now, lineBuffer, lastOutputAt, idleTimer, stopped, firedCallbacks>>

Stop ==
  /\ stopped' = TRUE
  /\ idleTimer' = [idleTimer EXCEPT !.active = FALSE]
  /\ UNCHANGED <<now, lineBuffer, currentStatus, lastOutputAt, lastChangeAt,
                 firedCallbacks, notifications, lastCall, plainFast>>

GetStatus == currentStatus

\* The runtime expires the armed timer and starts its function in a goroutine,
\* which then waits for sd.mu.
IdleTimerFire ==
  /\ idleTimer.active
  /\ now >= idleTimer.when
  /\ idleTimer' = [idleTimer EXCEPT !.active = FALSE]
  /\ firedCallbacks' = firedCallbacks + 1
  /\ UNCHANGED <<now, lineBuffer, currentStatus, lastOutputAt, lastChangeAt,
                 stopped, notifications, lastCall, plainFast>>

\* Mutants of IdleDue: the time test is missing; the status test is missing.
IdleDueNoClock == currentStatus = StatusActive

IdleDueAnyStatus == Since(lastOutputAt) >= IdleTimeout

\* The test of the timer function.
IdleDue == currentStatus = StatusActive /\ Since(lastOutputAt) >= IdleTimeout

\* The timer function, run with sd.mu held.
IdleCallback ==
  /\ firedCallbacks > 0
  /\ firedCallbacks' = firedCallbacks - 1
  /\ IF stopped
     THEN /\ lastCall' = [op |-> "IdleCallback", cand |-> "none", res |-> "stopped"]
          /\ UNCHANGED <<currentStatus, lastChangeAt, notifications>>
     ELSE IF IdleDue
     THEN setStatus(StatusIdle, "IdleCallback")
     ELSE /\ lastCall' = [op |-> "IdleCallback", cand |-> "none", res |-> "skipped"]
          /\ UNCHANGED <<currentStatus, lastChangeAt, notifications>>
  /\ UNCHANGED <<now, lineBuffer, lastOutputAt, idleTimer, stopped, plainFast>>

\* The clock advances.
Tick ==
  /\ now < MaxTime
  /\ now' = now + 1
  /\ UNCHANGED <<lineBuffer, currentStatus, lastOutputAt, lastChangeAt, idleTimer,
                 stopped, firedCallbacks, notifications, lastCall, plainFast>>

Next ==
  \/ (\E data \in Chunks : ProcessOutput(data)) /\ UNCHANGED <<winVars, pureVars, recVars, lockVars>>
  \/ SetExited /\ UNCHANGED <<winVars, pureVars, recVars, lockVars>>
  \/ Stop /\ UNCHANGED <<winVars, pureVars, recVars, lockVars>>
  \/ IdleTimerFire /\ UNCHANGED <<winVars, pureVars, recVars, lockVars>>
  \/ IdleCallback /\ UNCHANGED <<winVars, pureVars, recVars, lockVars>>
  \/ Tick /\ UNCHANGED <<winVars, pureVars, recVars, lockVars>>

Spec == Init /\ [][Next]_vars

TypeOK ==
  /\ now \in 0..MaxTime
  /\ currentStatus \in Statuses
  /\ Len(lineBuffer) <= MaxLineBufferSize
  /\ stopped \in BOOLEAN

\* ---- the line buffer under arbitrary chunking ----
WinAlphabet == {"a", NL, ">"}

\* Every chunk of at most MaxChunkLen characters of WinAlphabet.
WinChunks == UNION {[1..n -> WinAlphabet] : n \in 0..MaxChunkLen}

\* ProcessOutput(data), with the record of the bytes fed.  The twin line buffer
\* gets the same bytes in half as many chunks: it holds back every odd chunk
\* and is fed it together with the next one.
FeedChunk(data) ==
  /\ Len(fed) + Len(data) <= MaxFed
  /\ ProcessOutput(data)
  /\ fed' = fed \o data
  /\ IF twinPending = <<>>
     THEN /\ twinPending' = <<data>>
          /\ twinBuffer' = twinBuffer
     ELSE /\ twinPending' = <<>>
          /\ twinBuffer' = AppendTail(twinBuffer, twinPending[1] \o data)
  /\ UNCHANGED <<recVars, lockVars, pureVars>>

\* The line buffer does not depend on the clock: WindowSpec feeds at time 0.
WinNext == \E data \in WinChunks : FeedChunk(data)

WindowSpec == Init /\ [][WinNext]_vars

\* ---- the transcript recorder ----
\* The chunks RecordOutput is given: spinner frames, a progress frame, a frame
\* inside escape sequences, plain text, text that cleans to nothing.
OutChunks ==
  { <<"|">>, <<"5", "%">>, <<ESC, "[", "2", "K", "|", "\r">>,
    <<"a", "b", "c", "d">>, <<" ", "\r", NL>> }

\* The chunks RecordInput is given: a lone control byte, a line ending, a line.
InChunks == { <<ESC>>, <<NL>>, <<"l", "s", NL>> }

Entry(type, text) == [ts |-> now, type |-> type, text |-> text]

\* "[repeated " + strings.Repeat(".", n) + "]"
RepeatedText(n) ==
  <<"[", "r", "e", "p", "e", "a", "t", "e", "d", " ">> \o [i \in 1..n |-> "."] \o <<"]">>

\* Mutant of flush: the buffer is not cleared after the lines are built.
flushKeepsBuffer(entries, bytes) ==
  IF Len(entries) = 0
  THEN /\ trBuffer' = entries
       /\ bufferBytes' = bytes
       /\ batches' = batches
  ELSE /\ trBuffer' = entries
       /\ bufferBytes' = bytes
       /\ batches' = Append(batches, JsonLines(entries))

\* flush, called with tr.mu held on the buffer entries with bytes counted.
flush(entries, bytes) ==
  IF Len(entries) = 0
  THEN /\ trBuffer' = entries
       /\ bufferBytes' = bytes
       /\ batches' = batches
  ELSE /\ trBuffer' = <<>>
       /\ bufferBytes' = 0
       /\ batches' = Append(batches, JsonLines(entries))

\* Mutant of StoreAndFlush: the flush waits until the threshold is exceeded.
StoreAndFlushAbove(entries, bytes) ==
  IF bytes > TranscriptFlushThreshold
  THEN flush(entries, bytes)
  ELSE /\ trBuffer' = entries
       /\ bufferBytes' = bytes
       /\ batches' = batches

\* The end of RecordOutput and RecordInput: the buffer and the byte count are
\* stored and flushed at the threshold.
StoreAndFlush(entries, bytes) ==
  IF bytes >= TranscriptFlushThreshold
  THEN flush(entries, bytes)
  ELSE /\ trBuffer' = entries
       /\ bufferBytes' = bytes
       /\ batches' = batches

\* Mutant of IsRepeat: a frame is compared with nothing.
IsRepeatNever(cleaned) == isAnimationFrame(cleaned) /\ cleaned = <<>>

\* The repeat test of RecordOutput.
IsRepeat(cleaned) == isAnimationFrame(cleaned) /\ cleaned = lastOutput

\* Mutant of SummaryEntries: the summary is appended whatever the counter.
SummaryEntriesAlways == <<Entry("output", RepeatedText(dupCount))>>

\* The summary entry RecordOutput appends before a new entry.
SummaryEntries == IF dupCount > 0 THEN <<Entry("output", RepeatedText(dupCount))>> ELSE <<>>

RecordOutput(data) ==
  LET cleaned == cleanForTranscript(data)
      added == SummaryEntries \o <<Entry("output", cleaned)>>
  IN IF trStopped
     THEN /\ recCall' = [op |-> "RecordOutput", res |-> "stopped"]
          /\ UNCHANGED <<trVars, accepted, frameRun, prevClean>>
     ELSE IF cleaned = <<>>
     THEN /\ recCall' = [op |-> "RecordOutput", res |-> "empty"]
          /\ UNCHANGED <<trVars, accepted, frameRun, prevClean>>
     ELSE /\ frameRun' = (IF ~isAnimationFrame(cleaned) THEN 0
                           ELSE IF cleaned = prevClean THEN frameRun + 1 ELSE 1)
          /\ prevClean' = cleaned
          /\ IF IsRepeat(cleaned)
             THEN /\ dupCount < MaxDup
                  /\ dupCount' = dupCount + 1
                  /\ recCall' = [op |-> "RecordOutput", res |-> "repeat"]
                  /\ UNCHANGED <<trBuffer, bufferBytes, batches, lastOutput, accepted>>
             ELSE /\ Len(accepted) + Len(added) <= MaxEntries
                  /\ dupCount' = 0
                  /\ lastOutput' = cleaned
                  /\ StoreAndFlush(trBuffer \o added, bufferBytes + Len(cleaned))
                  /\ accepted' = accepted \o added
                  /\ recCall' = [op |-> "RecordOutput", res |-> "stored"]
          /\ UNCHANGED <<flushTimer, firedFlushes, trStopped>>

\* Mutant of IsControlKey: newline and carriage return are not excepted.
IsControlKeyAny(text) == Len(text) = 1 /\ text[1] \in ControlChars

\* The test of RecordInput for a lone control byte.
IsControlKey(text) ==
  Len(text) = 1 /\ text[1] \in ControlChars /\ text[1] # "\n" /\ text[1] # "\r"

\* Mutant of RecordInput: an input entry ends the run of repeated frames.
RecordInputEndsRun(data) ==
  IF trStopped
  THEN /\ recCall' = [op |-> "RecordInput", res |-> "stopped"]
       /\ UNCHANGED <<trVars, accepted, frameRun, prevClean>>
  ELSE IF IsControlKey(data)
  THEN /\ recCall' = [op |-> "RecordInput", res |-> "dropped"]
       /\ UNCHANGED <<trVars, accepted, frameRun, prevClean>>
  ELSE /\ Len(accepted) < MaxEntries
       /\ StoreAndFlush(Append(trBuffer, Entry("input", data)), bufferBytes + Len(data))
       /\ accepted' = Append(accepted, Entry("input", data))
       /\ recCall' = [op |-> "RecordInput", res |-> "stored"]
       /\ lastOutput' = <<>>
       /\ dupCount' = 0
       /\ UNCHANGED <<flushTimer, firedFlushes, trStopped, frameRun, prevClean>>

RecordInput(data) ==
  IF trStopped
  THEN /\ recCall' = [op |-> "RecordInput", res |-> "stopped"]
       /\ UNCHANGED <<trVars, accepted, frameRun, prevClean>>
  ELSE IF IsControlKey(data)
  THEN /\ recCall' = [op |-> "RecordInput", res |-> "dropped"]
       /\ UNCHANGED <<trVars, accepted, frameRun, prevClean>>
  ELSE /\ Len(accepted) < MaxEntries
       /\ StoreAndFlush(Append(trBuffer, Entry("input", data)), bufferBytes + Len(data))
       /\ accepted' = Append(accepted, Entry("input", data))
       /\ recCall' = [op |-> "RecordInput", res |-> "stored"]
       /\ UNCHANGED <<flushTimer, firedFlushes, trStopped, lastOutput, dupCount,
                      frameRun, prevClean>>

\* The runtime expires the flush timer and starts its function in a goroutine,
\* which then waits for tr.mu.
FlushTimerFire ==
  /\ flushTimer.active
  /\ now >= flushTimer.when
  /\ flushTimer' = [flushTimer EXCEPT !.active = FALSE]
  /\ firedFlushes' = firedFlushes + 1
  /\ UNCHANGED <<trBuffer, bufferBytes, trStopped, lastOutput, dupCount, batches, trGhost>>

\* Mutant of startFlushTimer: the timer is created but not started.
startFlushTimerUnarmed == [active |-> FALSE, when |-> now + TranscriptFlushInterval]

\* The timer startFlushTimer leaves in tr.flushTimer.
startFlushTimer == [active |-> TRUE, when |-> now + TranscriptFlushInterval]

\* Mutant of FlushCallback: tr.stopped is not tested.
FlushCallbackNoCheck ==
  /\ firedFlushes > 0
  /\ firedFlushes' = firedFlushes - 1
  /\ flush(trBuffer, bufferBytes)
  /\ flushTimer' = startFlushTimer
  /\ recCall' = [op |-> "FlushCallback",
                 res |-> IF trBuffer = <<>> THEN "nothing" ELSE "flushed"]
  /\ UNCHANGED <<trStopped, lastOutput, dupCount, accepted, frameRun, prevClean>>

\* The function of the flush timer, run with tr.mu held.
FlushCallback ==
  /\ firedFlushes > 0
  /\ firedFlushes' = firedFlushes - 1
  /\ IF trStopped
     THEN /\ recCall' = [op |-> "FlushCallback", res |-> "stopped"]
          /\ UNCHANGED <<trBuffer, bufferBytes, batches, flushTimer>>
     ELSE /\ flush(trBuffer, bufferBytes)
          /\ flushTimer' = startFlushTimer
          /\ recCall' = [op |-> "FlushCallback",
                         res |-> IF trBuffer = <<>> THEN "nothing" ELSE "flushed"]
  /\ UNCHANGED <<trStopped, lastOutput, dupCount, accepted, frameRun, prevClean>>

\* What the instrumentation notes of a Stop: it was not the first, or it found
\* nothing to flush, or it flushed.
StopResult ==
  IF trStopped THEN "again" ELSE IF trBuffer = <<>> THEN "nothing" ELSE "flushed"

\* Mutant of RecStop: Stop does not flush.
RecStopNoFlush ==
  /\ trStopped' = TRUE
  /\ flushTimer' = [flushTimer EXCEPT !.active = FALSE]
  /\ UNCHANGED <<trBuffer, bufferBytes, batches>>
  /\ recCall' = [op |-> "Stop", res |-> StopResult]
  /\ UNCHANGED <<firedFlushes, lastOutput, dupCount, accepted, frameRun, prevClean>>

\* TranscriptRecorder.Stop
RecStop ==
  /\ trStopped' = TRUE
  /\ flushTimer' = [flushTimer EXCEPT !.active = FALSE]
  /\ flush(trBuffer, bufferBytes)
  /\ recCall' = [op |-> "Stop", res |-> StopResult]
  /\ UNCHANGED <<firedFlushes, lastOutput, dupCount, accepted, frameRun, prevClean>>

\* Time passes, up to the horizon of the recorder's runs.
RecTick == now < MaxRecTime /\ Tick

RecNext ==
  \/ (\E data \in OutChunks : RecordOutput(data)) /\ UNCHANGED <<sdVars, winVars, pureVars, lockVars>>
  \/ (\E data \in InChunks : RecordInput(data)) /\ UNCHANGED <<sdVars, winVars, pureVars, lockVars>>
  \/ FlushTimerFire /\ UNCHANGED <<sdVars, winVars, pureVars, lockVars>>
  \/ FlushCallback /\ UNCHANGED <<sdVars, winVars, pureVars, lockVars>>
  \/ RecStop /\ UNCHANGED <<sdVars, winVars, pureVars, lockVars>>
  \/ RecTick /\ UNCHANGED <<winVars, pureVars, recVars, lockVars>>

RecSpec == Init /\ [][RecNext]_vars

\* Time passes, the runtime expires a flush timer that is due, and a started
\* timer function gets tr.mu.
RecLiveSpec ==
  /\ RecSpec
  /\ WF_vars(RecTick /\ UNCHANGED <<winVars, pureVars, recVars, lockVars>>)
  /\ WF_vars(FlushTimerFire /\ UNCHANGED <<sdVars, winVars, pureVars, lockVars>>)
  /\ WF_vars(FlushCallback /\ UNCHANGED <<sdVars, winVars, pureVars, lockVars>>)

\* ---- the locks ----
\* The operations that lock sd.mu and those that lock tr.mu.
SdOps == {"ProcessOutput", "SetExited", "Stop"}
TrOps == {"RecordOutput", "RecordInput", "RecStop"}

\* The calls the calling thread makes.
LockCalls ==
  { [op |-> "ProcessOutput", data |-> <<">", " ">>],
    [op |-> "SetExited", data |-> <<>>],
    [op |-> "Stop", data |-> <<>>],
    [op |-> "RecordOutput", data |-> <<"a", "b", "c", "d">>],
    [op |-> "RecordInput", data |-> <<"l", "s", NL>>],
    [op |-> "RecStop", data |-> <<>>] }

\* What a flushFn goroutine passes to RecordInput when it calls back.
CallbackInput == <<NL>>

\* The body of an operation, run between mu.Lock() and the deferred Unlock.
Body(op, data) ==
  CASE op = "ProcessOutput" -> ProcessOutput(data) /\ UNCHANGED <<winVars, pureVars, recVars>>
    [] op = "SetExited" -> SetExited /\ UNCHANGED <<winVars, pureVars, recVars>>
    [] op = "Stop" -> Stop /\ UNCHANGED <<winVars, pureVars, recVars>>
    [] op = "RecordOutput" -> RecordOutput(data) /\ UNCHANGED <<sdVars, winVars, pureVars>>
    [] op = "RecordInput" -> RecordInput(data) /\ UNCHANGED <<sdVars, winVars, pureVars>>
    [] op = "RecStop" -> RecStop /\ UNCHANGED <<sdVars, winVars, pureVars>>

\* The callbacks the body started: the listener when a notification was
\* dispatched, flushFn when a batch was.
Started ==
  (IF Len(notifications') > Len(notifications) THEN <<"listener">> ELSE <<>>)
    \o (IF Len(batches') > Len(batches) THEN <<"flushFn">> ELSE <<>>)

NewTask(kind) == [kind |-> kind, pc |-> "running"]

\* Mutant of StartCallback: the callback is called on the thread that holds
\* the mutex, which goes on when the callback returns.
StartCallbackInline(kind) ==
  [tasks |-> Append(tasks, NewTask(kind)), pc |-> "inCallback", cb |-> Len(tasks) + 1]

\* go sd.callback(oldStatus, newStatus) and go tr.flushFn(lines): the callback
\* gets a goroutine of its own and the thread that holds the mutex goes on.
StartCallback(kind) ==
  [tasks |-> Append(tasks, NewTask(kind)), pc |-> "held", cb |-> 0]

\* The calls of the recorder that wait for tr.mu.
TrWaiting ==
  (IF caller.pc = "waiting" /\ caller.op \in TrOps THEN 1 ELSE 0)
    + Cardinality({i \in 1..Len(tasks) : tasks[i].kind = "flushFn" /\ tasks[i].pc = "waiting"})

\* Every call that waits for tr.mu has room for its entry.
RoomForCall == Len(accepted) + TrWaiting + 1 <= MaxLockEntries

\* The thread calls an operation and reaches its mu.Lock().
CallBegin(c) ==
  /\ caller.pc = "idle"
  /\ c.op \in TrOps => RoomForCall
  /\ caller' = [pc |-> "waiting", op |-> c.op, data |-> c.data, cb |-> 0]
  /\ UNCHANGED <<sdVars, winVars, pureVars, recVars, sdMu, trMu, tasks>>

\* mu.Lock() returns and the body runs, starting its callback.
CallRun ==
  /\ caller.pc = "waiting"
  /\ IF caller.op \in SdOps
     THEN sdMu = Unlocked /\ sdMu' = HeldByCaller /\ trMu' = trMu
     ELSE trMu = Unlocked /\ trMu' = HeldByCaller /\ sdMu' = sdMu
  /\ Body(caller.op, caller.data)
  /\ IF Started = <<>>
     THEN /\ tasks' = tasks
          /\ caller' = [caller EXCEPT !.pc = "held"]
     ELSE LET r == StartCallback(Started[1])
          IN /\ tasks' = r.tasks
             /\ caller' = [caller EXCEPT !.pc = r.pc, !.cb = r.cb]

\* The operation returns: the deferred mu.Unlock() runs.
CallReturn ==
  /\ caller.pc = "held"
  /\ caller' = NotCalling
  /\ IF caller.op \in SdOps
     THEN sdMu' = Unlocked /\ trMu' = trMu
     ELSE trMu' = Unlocked /\ sdMu' = sdMu
  /\ UNCHANGED <<sdVars, winVars, pureVars, recVars, tasks>>

\* A listener calls GetStatus, a flushFn calls RecordInput: the callback
\* reaches mu.Lock().
TaskCall(i) ==
  /\ tasks[i].pc = "running"
  /\ tasks[i].kind = "flushFn" => RoomForCall
  /\ tasks' = [tasks EXCEPT ![i].pc = "waiting"]
  /\ UNCHANGED <<sdVars, winVars, pureVars, recVars, sdMu, trMu, caller>>

\* mu.Lock() returns in the callback and the body of GetStatus or of
\* RecordInput runs.
TaskRun(i) ==
  /\ tasks[i].pc = "waiting"
  /\ IF tasks[i].kind = "listener"
     THEN /\ sdMu = Unlocked
          /\ sdMu' = HeldByTask(i)
          /\ GetStatus \in Statuses
          /\ tasks' = [tasks EXCEPT ![i].pc = "held"]
          /\ UNCHANGED <<sdVars, winVars, pureVars, recVars, trMu>>
     ELSE /\ trMu = Unlocked
          /\ trMu' = HeldByTask(i)
          /\ RecordInput(CallbackInput)
          /\ UNCHANGED <<sdVars, winVars, pureVars, sdMu>>
          /\ LET started == IF Started = <<>> THEN tasks
                                             ELSE StartCallback(Started[1]).tasks
             IN tasks' = [started EXCEPT ![i].pc = "held"]
  /\ UNCHANGED caller

\* GetStatus or RecordInput returns in the callback: mu.Unlock() runs.
TaskUnlock(i) ==
  /\ tasks[i].pc = "held"
  /\ tasks' = [tasks EXCEPT ![i].pc = "after"]
  /\ IF tasks[i].kind = "listener"
     THEN sdMu' = Unlocked /\ trMu' = trMu
     ELSE trMu' = Unlocked /\ sdMu' = sdMu
  /\ UNCHANGED <<sdVars, winVars, pureVars, recVars, caller>>

\* The callback returns; a callback is free never to.
TaskReturn(i) ==
  /\ tasks[i].pc \in {"running", "after"}
  /\ tasks' = [tasks EXCEPT ![i].pc = "returned"]
  /\ caller' = IF caller.pc = "inCallback" /\ caller.cb = i
                THEN [caller EXCEPT !.pc = "held", !.cb = 0]
                ELSE caller
  /\ UNCHANGED <<sdVars, winVars, pureVars, recVars, sdMu, trMu>>

LockNext ==
  \/ \E c \in LockCalls : CallBegin(c)
  \/ CallRun
  \/ CallReturn
  \/ \E i \in 1..Len(tasks) : TaskCall(i)
  \/ \E i \in 1..Len(tasks) : TaskRun(i)
  \/ \E i \in 1..Len(tasks) : TaskUnlock(i)
  \/ \E i \in 1..Len(tasks) : TaskReturn(i)

\* The calling thread gets a mutex that is unlocked, or returns from the body
\* of its operation.
CallerRuns == CallRun \/ CallReturn

\* A goroutine gets the mutex it waits for.
TaskRuns == \E i \in 1..Len(tasks) : TaskRun(i)

\* A goroutine returns from the body of the operation it called.
TaskUnlocks == \E i \in 1..Len(tasks) : TaskUnlock(i)

\* The scheduler does not leave a runnable thread waiting for ever, and
\* sync.Mutex hands the mutex to a goroutine that keeps finding it locked.
\* Nothing makes a callback call back or return.
LockSpec ==
  /\ Init
  /\ [][LockNext]_vars
  /\ WF_vars(CallerRuns)
  /\ WF_vars(TaskUnlocks)
  /\ SF_vars(TaskRuns)

\* ---- the functions applied to texts ----
\* The texts cleanForTranscript is given are built from these characters, up
\* to MaxCleanLen of them, or are one of CleanSeeds, which have escape
\* sequences.
CleanAlphabet == {"a", " ", NL, "\r"}
CleanSeeds ==
  { <<"a", NL, NL, ESC, "[", "0", "m", NL, "b">>,
    <<ESC, "[", "?", "2", "5", "l", " ", "a", "\r", NL, "b", " ">>,
    <<" ", ESC, "]", "0", ";", "t", BEL, NL>> }

\* The same for stripAnsi, with the inputs of TestStripAnsi.
StripAlphabet == {ESC, "[", "]", "1", ";", "m", BEL, "a"}
StripSeeds ==
  { <<"h", "e", "l", "l", "o", " ", "w", "o", "r", "l", "d">>,
    <<ESC, "[", "3", "2", "m", "g", "r", "e", "e", "n", ESC, "[", "0", "m">>,
    <<ESC, "[", "1", ";", "1", "H", "h", "e", "l", "l", "o">>,
    <<ESC, "]", "0", ";", "M", "y", " ", "T", "i", "t", "l", "e", BEL, "r", "e", "s", "t">> }

\* The same for the candidate of ProcessOutput, with the inputs of
\* TestMatchesPrompt and TestGetLastLines and a prompt in colour.
CandAlphabet == {"a", " ", NL, ">"}
PromptSeeds ==
  { <<Chevron, " ">>, <<Chevron, " ", " ">>, <<">", " ">>, <<"$", " ">>,
    <<"?", " ", "(", "y", "e", "s", "/", "n", "o", ")", " ">>,
    <<"(", "Y", ")", "e", "s", " ", "/", " ", "(", "N", ")", "o">>,
    LitPressEnter, LitYnBracket,
    <<ESC, "[", "3", "2", "m", ">", " ", ESC, "[", "0", "m">> }
PlainSeeds ==
  { <<"B", "u", "i", "l", "d", "i", "n", "g", " ", "p", "r", "o", "j", "e", "c", "t", ".", ".", ".">>,
    <<"c", "o", "n", "s", "t", " ", "f", "o", "o", " ", "=", " ", "4", "2", ";">>,
    <<"a", NL, "b", NL, "c", NL, "d", NL, "e">>,
    <<"$", " ", NL, "a", NL, "b", NL, "c">>,
    <<>> }

\* The function named fn applied to the text t.
Applied(fn, t) ==
  CASE fn = "cleanForTranscript" -> cleanForTranscript(t)
    [] fn = "stripAnsi" -> stripAnsi(t)
    [] fn = "Candidate" -> Candidate(t)

\* The function named fn is called with the text t.
Give(fn, t) ==
  /\ givenText' = t
  /\ returned' = [of |-> fn, value |-> Applied(fn, t)]
  /\ UNCHANGED <<sdVars, winVars, recVars, lockVars>>

\* The text grows by a character and the function is applied to it.
Extend(fn, c, max) == Len(givenText) < max /\ Give(fn, Append(givenText, c))

\* The function is applied to a seed.
Load(fn, t) == givenText = <<>> /\ Give(fn, t)

CleanNext ==
  \/ \E c \in CleanAlphabet : Extend("cleanForTranscript", c, MaxCleanLen)
  \/ \E t \in CleanSeeds : Load("cleanForTranscript", t)

CleanSpec == Init /\ [][CleanNext]_vars

StripNext ==
  \/ \E c \in StripAlphabet : Extend("stripAnsi", c, MaxStripLen)
  \/ \E t \in StripSeeds : Load("stripAnsi", t)

StripSpec == Init /\ [][StripNext]_vars

CandNext ==
  \/ \E c \in CandAlphabet : Extend("Candidate", c, MaxCandLen)
  \/ \E t \in PromptSeeds \cup PlainSeeds : Load("Candidate", t)

CandSpec == Init /\ [][CandNext]_vars

\* The timer and its goroutines run: the runtime expires an armed timer that is
\* due, and a started timer function gets sd.mu.
LiveSpec ==
  /\ Spec
  /\ WF_vars(IdleTimerFire /\ UNCHANGED <<winVars, pureVars, recVars, lockVars>>)
  /\ WF_vars(IdleCallback /\ UNCHANGED <<winVars, pureVars, recVars, lockVars>>)

\* ---- properties ----
\* A step of one of the operations that reach setStatus or return before it.
CallStep == (\E data \in Chunks : ProcessOutput(data)) \/ SetExited \/ IdleCallback

\* At least d has passed since the last accepted change, or there was none.
ElapsedSinceChange(d) == lastChangeAt = ZeroTime \/ now - lastChangeAt >= d

\* C1: the status changes, and a notification is dispatched, only for a
\* candidate that differs from the current status and only when at least
\* DebounceInterval has passed since the last accepted change; so consecutive
\* accepted changes are at least DebounceInterval apart.
C1_DebouncedCommit ==
  [][ /\ (currentStatus' # currentStatus \/ notifications' # notifications \/
          lastChangeAt' # lastChangeAt)
         => /\ currentStatus' # currentStatus
            /\ Len(notifications') = Len(notifications) + 1
            /\ ElapsedSinceChange(DebounceInterval)
            /\ lastChangeAt' = now
      /\ (lastChangeAt' # lastChangeAt /\ lastChangeAt # ZeroTime)
         => lastChangeAt' - lastChangeAt >= DebounceInterval ]_vars

\* Two changes have been accepted, the second by the latest call.
C1_Witness ==
  /\ Len(notifications) >= 2
  /\ lastCall.res = "accepted"
  /\ lastChangeAt >= DebounceInterval

\* C2: a candidate that differs from the current status and is proposed less
\* than DebounceInterval after the last accepted change is discarded, and it
\* is not deferred: a step that is no ProcessOutput, SetExited or timer
\* function leaves the status and the notifications as they are.
C2_DiscardedNotDeferred ==
  [][ /\ (/\ CallStep
          /\ lastCall'.cand \in Statuses \ {currentStatus}
          /\ ~ElapsedSinceChange(DebounceInterval))
         => UNCHANGED <<currentStatus, lastChangeAt, notifications>>
      /\ ~CallStep => UNCHANGED <<currentStatus, lastChangeAt, notifications>> ]_vars

\* The latest call was a ProcessOutput whose candidate was discarded; the
\* debounce window of the accepted change has since passed, no other call
\* was made, and the status is still not the discarded candidate.
C2_Witness ==
  /\ lastCall.op = "ProcessOutput"
  /\ lastCall.res = "discarded"
  /\ lastCall.cand # currentStatus
  /\ Len(notifications) >= 1
  /\ now - lastChangeAt >= DebounceInterval
  /\ now - lastOutputAt >= 1

\* C3: a step that changes the status dispatches exactly one notification,
\* carrying the status before and the status after; a step that leaves the
\* status as it is (the candidate equals it, or is discarded) dispatches none.
C3_OneNotificationPerTransition ==
  [][ /\ currentStatus' # currentStatus
         => notifications' =
              Append(notifications, [old |-> currentStatus, new |-> currentStatus'])
      /\ currentStatus' = currentStatus => notifications' = notifications ]_vars

\* Notifications have been dispatched and the latest candidate was discarded.
C3_Witness ==
  /\ Len(notifications) >= 2
  /\ lastCall.res = "discarded"
  /\ notifications[Len(notifications)].new = currentStatus

\* C4: a step into Idle leaves Active and is taken when at least IdleTimeout
\* has passed since the last output (or since creation).
C4_IdleOnlyFromActiveAfterTimeout ==
  [][ (currentStatus' = StatusIdle /\ currentStatus # StatusIdle)
      => /\ currentStatus = StatusActive
         /\ now - lastOutputAt >= IdleTimeout
         /\ IdleCallback ]_vars

\* Idle was entered after output had been processed.
C4_Witness ==
  /\ currentStatus = StatusIdle
  /\ Len(lineBuffer) > 0
  /\ lastCall = [op |-> "IdleCallback", cand |-> StatusIdle, res |-> "accepted"]

\* C5: when the classifier is not stopped, is Active and has seen no output
\* for IdleTimeout, the status becomes Idle, unless output arrives, SetExited
\* takes the status to Exited or Stop is called before it does.
C5_Waiting == ~stopped /\ currentStatus = StatusActive /\ now - lastOutputAt >= IdleTimeout

C5_EventuallyIdle ==
  C5_Waiting ~>
    (\/ currentStatus = StatusIdle
     \/ stopped
     \/ currentStatus = StatusExited
     \/ now - lastOutputAt < IdleTimeout)

\* Idle was entered by the timer function, not suppressed by debounce.
C5_Witness ==
  /\ currentStatus = StatusIdle
  /\ ~stopped
  /\ now - lastOutputAt >= IdleTimeout
  /\ notifications[Len(notifications)] = [old |-> StatusActive, new |-> StatusIdle]

\* C6 as stated: once the status is Exited, no step changes it.
C6_ExitedTerminal == [][currentStatus = StatusExited => currentStatus' = StatusExited]_vars

\* C6 amended: once the status is Exited, only a ProcessOutput on a classifier
\* that is not stopped, made at least DebounceInterval after Exited was
\* committed, changes it, to the candidate of the line buffer; the timer
\* function, SetExited and an earlier ProcessOutput leave it Exited.
C6_ExitedUntilLateOutput ==
  [][ /\ (currentStatus = StatusExited /\ currentStatus' # StatusExited)
         => /\ \E data \in Chunks : ProcessOutput(data)
            /\ ~stopped
            /\ now - lastChangeAt >= DebounceInterval
            /\ currentStatus' \in {StatusActive, StatusNeedsInput}
      /\ (currentStatus = StatusExited /\ (SetExited \/ IdleCallback))
         => currentStatus' = StatusExited ]_vars

\* The status is Exited and the latest call, a ProcessOutput, did not change it.
C6_Witness ==
  /\ currentStatus = StatusExited
  /\ lastCall.op = "ProcessOutput"
  /\ lastCall.res = "discarded"

\* C7: SetExited from Active, NeedsInput or Idle commits Exited and dispatches
\* (previous, Exited) when at least DebounceInterval has passed since the last
\* accepted change (or there was none), whatever the timer and the last-output
\* time are; otherwise it leaves the status and the notifications as they are.
C7_SetExitedDebounced ==
  [][ (SetExited /\ currentStatus \in {StatusActive, StatusNeedsInput, StatusIdle})
      => IF ElapsedSinceChange(DebounceInterval)
         THEN /\ currentStatus' = StatusExited
              /\ notifications' =
                   Append(notifications, [old |-> currentStatus, new |-> StatusExited])
              /\ lastChangeAt' = now
         ELSE UNCHANGED <<currentStatus, notifications, lastChangeAt>> ]_vars

\* SetExited took the status from Idle to Exited.
C7_Witness ==
  /\ currentStatus = StatusExited
  /\ lastCall = [op |-> "SetExited", cand |-> StatusExited, res |-> "accepted"]
  /\ notifications[Len(notifications)] = [old |-> StatusIdle, new |-> StatusExited]

\* C8: once the classifier is stopped, ProcessOutput, SetExited and the timer
\* function change neither the status, the line buffer, the time stamps nor
\* the notifications.
C8_NoOpAfterStop ==
  [][ (stopped /\ CallStep)
      => UNCHANGED <<currentStatus, lineBuffer, lastOutputAt, lastChangeAt,
                     notifications>> ]_vars

\* C9: while every call so far was a ProcessOutput whose line buffer matched
\* no prompt and that came less than DebounceInterval after the one before
\* (the first one after creation), the status is Active and nothing was
\* dispatched.
C9_PlainFastStaysActive ==
  (plainFast /\ now - lastOutputAt < DebounceInterval)
  => (currentStatus = StatusActive /\ notifications = <<>>)

\* Several such chunks have been processed, past the first idle deadline.
C9_Witness ==
  /\ plainFast
  /\ lastCall = [op |-> "ProcessOutput", cand |-> StatusActive, res |-> "same"]
  /\ Len(lineBuffer) = MaxLineBufferSize
  /\ now >= IdleTimeout
  /\ now - lastOutputAt < DebounceInterval

\* C10: a candidate that differs from the current status and is proposed more
\* than DebounceInterval after the last accepted change (or before any) is
\* accepted: ProcessOutput leaves the status NeedsInput when the line buffer
\* ends in a prompt and Active when it does not, SetExited leaves it Exited,
\* and each change dispatches one notification.
C10_SpacedCandidatesAccepted ==
  [][ /\ (/\ \E data \in Chunks : ProcessOutput(data)
          /\ ~stopped
          /\ (lastChangeAt = ZeroTime \/ now - lastChangeAt > DebounceInterval))
         => /\ currentStatus' =
                 (IF matchesPrompt(stripAnsi(getLastLines(lineBuffer', 3)))
                  THEN StatusNeedsInput ELSE StatusActive)
            /\ Len(notifications') =
                 Len(notifications) + (IF currentStatus' # currentStatus THEN 1 ELSE 0)
      /\ (SetExited /\ (lastChangeAt = ZeroTime \/ now - lastChangeAt > DebounceInterval))
         => /\ currentStatus' = StatusExited
            /\ Len(notifications') =
                 Len(notifications) + (IF currentStatus # StatusExited THEN 1 ELSE 0) ]_vars

\* The scenario of TestStatusDetectorTransitions has run: plain output, a
\* prompt, plain output, exit.
C10_Witness ==
  /\ notifications = << [old |-> StatusActive, new |-> StatusNeedsInput],
                        [old |-> StatusNeedsInput, new |-> StatusActive],
                        [old |-> StatusActive, new |-> StatusExited] >>
  /\ currentStatus = StatusExited
  /\ lastChangeAt > 2 * DebounceInterval

\* C11: after any sequence of ProcessOutput calls the line buffer holds at most
\* MaxLineBufferSize characters and is the tail of that length (or all) of the
\* concatenation of the chunks fed.
C11_WindowIsTailOfFed ==
  /\ Len(lineBuffer) <= MaxLineBufferSize
  /\ Len(lineBuffer) = (IF Len(fed) < MaxLineBufferSize THEN Len(fed) ELSE MaxLineBufferSize)
  /\ lineBuffer = SubSeq(fed, Len(fed) - Len(lineBuffer) + 1, Len(fed))

\* More than MaxLineBufferSize characters were fed, in at least three chunks.
C11_Witness ==
  /\ Len(fed) = MaxFed
  /\ MaxFed > MaxLineBufferSize
  /\ lineBuffer = SubSeq(fed, Len(fed) - MaxLineBufferSize + 1, Len(fed))
  /\ lineBuffer[1] # fed[1]

\* C12: after chunks a and b fed in two calls the line buffer is the one that
\* the single chunk a \o b leaves, and the candidate the second call computed
\* is the candidate of that line buffer.
C12_ChunkingIrrelevant ==
  (twinPending = <<>> /\ lastCall.op = "ProcessOutput")
  => /\ lineBuffer = twinBuffer
     /\ lastCall.cand =
          (IF matchesPrompt(stripAnsi(getLastLines(twinBuffer, 3)))
           THEN StatusNeedsInput ELSE StatusActive)

\* A prompt was split over two chunks, after the line buffer had overflowed.
C12_Witness ==
  /\ twinPending = <<>>
  /\ Len(fed) > MaxLineBufferSize
  /\ lineBuffer = twinBuffer
  /\ lastCall.cand = StatusNeedsInput
  /\ fed[Len(fed)] = NL
  /\ fed[Len(fed) - 1] = ">"

\* C13: a ProcessOutput with an empty chunk changes neither the status nor the
\* notifications.
C13_EmptyChunkNotClassified ==
  [][ProcessOutput(<<>>) => UNCHANGED <<currentStatus, notifications>>]_vars

\* C15 as stated: until Stop, a timer is armed or its function is waiting to run.
C15_TimerAlwaysOutstanding == ~stopped => (idleTimer.active \/ firedCallbacks > 0)

\* C15 amended: until Stop, every ProcessOutput arms a timer for IdleTimeout
\* later; the timer function does not arm one, so once it has run no timer is
\* outstanding until the next ProcessOutput; a timer or its function is
\* outstanding whenever less than IdleTimeout has passed since the last output.
C15_RearmedByOutputOnly ==
  [][ /\ ((\E data \in Chunks : ProcessOutput(data)) /\ ~stopped)
         => idleTimer' = [active |-> TRUE, when |-> now + IdleTimeout]
      /\ IdleCallback => idleTimer' = idleTimer
      /\ IdleTimerFire => ~idleTimer'.active
      /\ (~stopped /\ now - lastOutputAt < IdleTimeout)
         => (idleTimer.active \/ firedCallbacks > 0) ]_vars

\* The timer function has run on a classifier that is not stopped, and no
\* timer is armed.
C15_Witness ==
  /\ ~stopped
  /\ ~idleTimer.active
  /\ firedCallbacks = 0
  /\ lastCall.op = "IdleCallback"
  /\ Len(lineBuffer) > 0

\* C16: a new classifier is Active with its idle timer armed and nothing
\* dispatched, and GetStatus is Active as long as no change was accepted.
C16_FreshIsActive ==
  /\ (lastCall = NoCall /\ ~stopped /\ now < IdleTimeout)
     => (idleTimer = [active |-> TRUE, when |-> IdleTimeout] /\ notifications = <<>>)
  /\ notifications = <<>> => (GetStatus = StatusActive /\ lastChangeAt = ZeroTime)

\* Calls were made and none changed the status yet.
C16_Witness ==
  /\ notifications = <<>>
  /\ lastCall = [op |-> "ProcessOutput", cand |-> StatusActive, res |-> "same"]
  /\ now > IdleTimeout
  /\ GetStatus = StatusActive

\* C31: a timer function that gets sd.mu after Stop, or while less than
\* IdleTimeout has passed since the last output that ProcessOutput recorded,
\* changes nothing; and no step commits Idle on a stopped classifier or while
\* less than IdleTimeout has passed since the last output.
C31_NoSpuriousIdle ==
  [][ /\ (IdleCallback /\ (stopped \/ now - lastOutputAt < IdleTimeout))
         => UNCHANGED <<currentStatus, lastChangeAt, notifications, lineBuffer,
                        lastOutputAt, idleTimer, stopped>>
      /\ (currentStatus' = StatusIdle /\ currentStatus # StatusIdle)
         => (~stopped /\ now - lastOutputAt >= IdleTimeout) ]_vars

\* The function of a timer that expired before the latest output has run after
\* it and left the status Active.
C31_Witness ==
  /\ lastCall = [op |-> "IdleCallback", cand |-> "none", res |-> "skipped"]
  /\ ~stopped
  /\ currentStatus = StatusActive
  /\ Len(lineBuffer) > 0
  /\ now - lastOutputAt < IdleTimeout
  /\ idleTimer = [active |-> TRUE, when |-> lastOutputAt + IdleTimeout]

\* C32: as long as no change was accepted the time of the last change is
\* unset, and the first candidate that differs from Active is accepted
\* whatever the time since creation: a ProcessOutput whose line buffer matches
\* a prompt commits NeedsInput, a SetExited commits Exited, and each dispatches
\* its notification.
C32_FirstChangeNotDebounced ==
  /\ [](notifications = <<>> => lastChangeAt = ZeroTime)
  /\ [][ /\ \A data \in Chunks :
             (/\ ProcessOutput(data)
              /\ ~stopped
              /\ notifications = <<>>
              /\ Candidate(AppendTail(lineBuffer, data)) = StatusNeedsInput)
             => /\ currentStatus' = StatusNeedsInput
                /\ lastChangeAt' = now
                /\ notifications' = <<[old |-> StatusActive, new |-> StatusNeedsInput]>>
         /\ (SetExited /\ notifications = <<>>)
             => /\ currentStatus' = StatusExited
                /\ lastChangeAt' = now
                /\ notifications' = <<[old |-> StatusActive, new |-> StatusExited]>> ]_vars

\* A prompt was accepted less than DebounceInterval after creation.
C32_Witness ==
  /\ lastCall = [op |-> "ProcessOutput", cand |-> StatusNeedsInput, res |-> "accepted"]
  /\ notifications = <<[old |-> StatusActive, new |-> StatusNeedsInput]>>
  /\ now < DebounceInterval
  /\ lastChangeAt = now

\* C33: a candidate that equals the current status, or that comes less than
\* DebounceInterval after the last accepted change, leaves the status, the
\* time of the last change and the notifications as they were; a ProcessOutput
\* with such a candidate still stores the time of the output and arms the idle
\* timer anew.
C33_DiscardLeavesChangeTime ==
  [][ /\ \A data \in Chunks :
          (/\ ProcessOutput(data)
           /\ ~stopped
           /\ \/ Candidate(AppendTail(lineBuffer, data)) = currentStatus
              \/ ~ElapsedSinceChange(DebounceInterval))
          => /\ UNCHANGED <<currentStatus, lastChangeAt, notifications>>
             /\ lastOutputAt' = now
             /\ idleTimer' = [active |-> TRUE, when |-> now + IdleTimeout]
      /\ (SetExited /\ (currentStatus = StatusExited \/ ~ElapsedSinceChange(DebounceInterval)))
          => UNCHANGED <<currentStatus, lastChangeAt, notifications>>
      /\ (IdleCallback /\ ~ElapsedSinceChange(DebounceInterval))
          => UNCHANGED <<currentStatus, lastChangeAt, notifications>> ]_vars

\* A ProcessOutput was discarded in the debounce window of an earlier change:
\* the time of the change is the earlier one, the time of the output and the
\* timer are new.
C33_Witness ==
  /\ lastCall.op = "ProcessOutput"
  /\ lastCall.res = "discarded"
  /\ lastChangeAt # ZeroTime
  /\ lastChangeAt < now
  /\ now - lastChangeAt < DebounceInterval
  /\ lastOutputAt = now
  /\ idleTimer = [active |-> TRUE, when |-> now + IdleTimeout]

TaskWaiting == \E i \in 1..Len(tasks) : tasks[i].pc = "waiting"

\* C14: a call of ProcessOutput, SetExited, Stop, RecordOutput, RecordInput or
\* the recorder's Stop that has begun returns, with its mutex unlocked, whether
\* or not the listener and flushFn goroutines ever return; and a listener that
\* calls GetStatus, or a flushFn that calls RecordInput, gets the mutex: no
\* callback is left waiting for ever.
C14_ProducerNeverBlocked ==
  /\ [](caller.pc = "idle" => sdMu # HeldByCaller /\ trMu # HeldByCaller)
  /\ (caller.pc # "idle") ~> (caller.pc = "idle")
  /\ TaskWaiting ~> ~TaskWaiting

\* Both Stops have returned while a listener that has called GetStatus and a
\* flushFn that has called RecordInput have not returned.
C14_Witness ==
  /\ caller.pc = "idle"
  /\ stopped /\ trStopped
  /\ sdMu = Unlocked /\ trMu = Unlocked
  /\ \E i \in 1..Len(tasks) : tasks[i].kind = "listener" /\ tasks[i].pc = "after"
  /\ \E i \in 1..Len(tasks) : tasks[i].kind = "flushFn" /\ tasks[i].pc = "after"

\* ---- the transcript recorder's properties ----
RECURSIVE Concat(_)
\* The lines of the batches, in the order the batches were dispatched.
Concat(bs) == IF bs = <<>> THEN <<>> ELSE bs[1] \o Concat(Tail(bs))

\* C17: whatever RecordOutput, RecordInput, the flush timer, the threshold and
\* Stop have done so far, the batches dispatched, in dispatch order, followed
\* by the buffer are the entries accepted, each once and in arrival order.
C17_BatchesThenBufferAreAccepted ==
  Concat(batches) \o JsonLines(trBuffer) = JsonLines(accepted)

\* Two batches have been dispatched, one by the threshold and one by the timer,
\* and an entry accepted after them is in the buffer.
C17_Witness ==
  /\ Len(batches) = 2
  /\ trBuffer # <<>>
  /\ Len(accepted) = MaxEntries
  /\ \E i \in 1..Len(accepted) : accepted[i].type = "input"
  /\ \E i \in 1..Len(accepted) : accepted[i].type = "output"

\* A step of the timer's function on a running recorder, or of Stop.
FlushStep == (FlushCallback /\ ~trStopped) \/ RecStop

\* The lines of the batch the step dispatched.
Dispatched == batches'[Len(batches')]

\* C18: a flush of a buffer that is not empty dispatches one batch, with one
\* line for each buffered entry, in order, and leaves the buffer empty and the
\* byte counter zero in the state in which the batch is handed over; a flush
\* of an empty buffer dispatches nothing and leaves buffer, counter and
\* batches as they were.
C18_FlushDispatchesBufferOnce ==
  [][ /\ FlushStep /\ trBuffer # <<>> =>
           /\ Len(batches') = Len(batches) + 1
           /\ Len(Dispatched) = Len(trBuffer)
           /\ \A i \in 1..Len(trBuffer) : Dispatched[i] = JsonLine(trBuffer[i])
      /\ FlushStep /\ trBuffer = <<>> => UNCHANGED <<trBuffer, bufferBytes, batches>>
      /\ batches' # batches =>
           /\ Len(batches') = Len(batches) + 1
           /\ \A i \in 1..Len(batches) : batches'[i] = batches[i]
           /\ Len(Dispatched) >= Len(trBuffer)
           /\ Len(Dispatched) > 0
           /\ \A i \in 1..Len(trBuffer) : Dispatched[i] = JsonLine(trBuffer[i])
           /\ trBuffer' = <<>>
           /\ bufferBytes' = 0 ]_vars

\* The timer's function has flushed a buffer of two entries.
C18_Witness ==
  /\ recCall = [op |-> "FlushCallback", res |-> "flushed"]
  /\ batches # <<>>
  /\ Len(batches[Len(batches)]) = 2
  /\ trBuffer = <<>>
  /\ bufferBytes = 0

\* The lines the step appended to the buffer, read from the buffer or, when the
\* step flushed at the threshold, from the batch it dispatched.
AppendedLines ==
  LET lines == IF batches' # batches THEN Dispatched ELSE JsonLines(trBuffer')
  IN SubSeq(lines, Len(trBuffer) + 1, Len(lines))

\* A call of RecordOutput that took the branch res.
RecordOutputStep(data, res) == RecordOutput(data) /\ recCall'.res = res

\* C19: when RecordOutput has been fed the same animation frame N >= 2 times
\* in a row (chunks that clean to nothing record nothing and are not counted)
\* and then stores a different output, it appends one summary entry recording
\* N - 1 and the entry of the new output; the repeats of the frame appended
\* nothing.
C19_RunOfFramesSummarised ==
  [][ \A data \in OutChunks :
        /\ RecordOutputStep(data, "stored") /\ frameRun >= 2 =>
             AppendedLines =
               JsonLines(<<Entry("output", RepeatedText(frameRun - 1)),
                           Entry("output", cleanForTranscript(data))>>)
        /\ RecordOutputStep(data, "repeat") =>
             /\ frameRun' >= 2
             /\ UNCHANGED <<trBuffer, bufferBytes, batches>> ]_vars

\* Three frames in a row were followed by another output: the transcript is the
\* frame, a summary of two repeats and the other output.
C19_Witness ==
  /\ recCall = [op |-> "RecordOutput", res |-> "stored"]
  /\ Len(accepted) = 3
  /\ accepted[1].text = <<"|">>
  /\ accepted[2].text = RepeatedText(2)
  /\ accepted[3].text = <<"a", "b", "c", "d">>

\* C20: when RecordOutput stores a new entry with the repeat counter above
\* zero, it appends one summary entry and, right after it, the new entry, and
\* resets the counter to zero; with the counter at zero it appends the new
\* entry alone.
C20_SummaryRightBeforeEntry ==
  [][ \A data \in OutChunks :
        RecordOutputStep(data, "stored") =>
          /\ dupCount' = 0
          /\ dupCount > 0 =>
               /\ Len(AppendedLines) = 2
               /\ AppendedLines[1] = JsonLine(Entry("output", RepeatedText(dupCount)))
               /\ AppendedLines[2] = JsonLine(Entry("output", cleanForTranscript(data)))
          /\ dupCount = 0 =>
               AppendedLines = <<JsonLine(Entry("output", cleanForTranscript(data)))>> ]_vars

\* A summary of one repeat and a progress frame are next to each other in the
\* buffer, and the counter is zero.
C20_Witness ==
  /\ recCall = [op |-> "RecordOutput", res |-> "stored"]
  /\ dupCount = 0
  /\ Len(trBuffer) >= 2
  /\ trBuffer[Len(trBuffer) - 1].text = RepeatedText(1)
  /\ trBuffer[Len(trBuffer)].text = <<"5", "%">>
\* C21: a RecordOutput on a running recorder whose cleaned text is an animation
\* frame equal to the last recorded output text adds one to the repeat counter
\* and nothing else: buffer, byte counter, last-output text and batches stay
\* as they were.
C21_RepeatOnlyCounts ==
  [][ \A data \in OutChunks :
        /\ RecordOutput(data)
        /\ ~trStopped
        /\ isAnimationFrame(cleanForTranscript(data))
        /\ cleanForTranscript(data) = lastOutput
        => /\ dupCount' = dupCount + 1
           /\ UNCHANGED <<trBuffer, bufferBytes, lastOutput, batches, flushTimer>> ]_vars

\* The frame in the buffer has been repeated twice and the counter stands at
\* two.
C21_Witness ==
  /\ recCall = [op |-> "RecordOutput", res |-> "repeat"]
  /\ dupCount = 2
  /\ lastOutput = <<"|">>
  /\ Len(trBuffer) = 1
  /\ bufferBytes = 1

\* The payloads that are one byte below 32 other than 10 and 13, among the
\* characters of the model: 27, 7, 9 and 12.
LoneControlByte(data) == data \in {<<ESC>>, <<BEL>>, <<"\t">>, <<"\f">>}

ReachesThreshold(size) == bufferBytes + size >= TranscriptFlushThreshold

\* The step has dispatched a batch and left the buffer empty and the counter
\* zero.
Flushed ==
  /\ Len(batches') = Len(batches) + 1
  /\ trBuffer' = <<>>
  /\ bufferBytes' = 0

\* C23: a RecordOutput or RecordInput that brings the byte counter to
\* TranscriptFlushThreshold or beyond flushes before it returns; so between
\* calls the counter is below the threshold, and it is zero when the buffer is
\* empty.
C23_CounterBelowThreshold ==
  /\ [](bufferBytes < TranscriptFlushThreshold)
  /\ [](trBuffer = <<>> => bufferBytes = 0)
  /\ [][ /\ \A data \in OutChunks :
             RecordOutputStep(data, "stored")
               /\ ReachesThreshold(Len(cleanForTranscript(data))) => Flushed
         /\ \A data \in InChunks :
             RecordInput(data) /\ recCall'.res = "stored"
               /\ ReachesThreshold(Len(data)) => Flushed ]_vars

\* The counter is one below the threshold after a threshold flush.
C23_Witness ==
  /\ bufferBytes = TranscriptFlushThreshold - 1
  /\ trBuffer # <<>>
  /\ batches # <<>>
  /\ recCall = [op |-> "RecordInput", res |-> "stored"]
\* C24: the first Stop dispatches the entries still buffered as one batch, or
\* none when the buffer is empty, and leaves the buffer empty; a later Stop
\* finds the buffer empty and dispatches nothing.
C24_StopFlushesOnce ==
  [][ RecStop =>
        /\ trBuffer # <<>> => batches' = Append(batches, JsonLines(trBuffer))
        /\ trBuffer = <<>> => batches' = batches
        /\ trBuffer' = <<>>
        /\ trStopped => trBuffer = <<>> /\ UNCHANGED trVars ]_vars

\* Stop was called again after a Stop that had flushed two entries.
C24_Witness ==
  /\ recCall = [op |-> "Stop", res |-> "again"]
  /\ Len(batches) = 1
  /\ Len(batches[1]) = 2
  /\ trBuffer = <<>>

\* C25: on a stopped recorder RecordOutput, RecordInput and the function of
\* the flush timer, also one started before Stop, change nothing: the buffer
\* stays empty, no batch is dispatched and the timer stays unarmed.
C25_NoOpAfterStop ==
  [][ /\ trStopped
      /\ \/ \E data \in OutChunks : RecordOutput(data)
         \/ \E data \in InChunks : RecordInput(data)
         \/ FlushCallback
      => /\ trBuffer = <<>>
         /\ ~flushTimer.active
         /\ UNCHANGED <<trBuffer, bufferBytes, batches, flushTimer, trStopped,
                        lastOutput, dupCount>> ]_vars

\* The function of a timer that had expired before Stop has run after it.
C25_Witness ==
  /\ recCall = [op |-> "FlushCallback", res |-> "stopped"]
  /\ trStopped
  /\ batches # <<>>
  /\ ~flushTimer.active

\* The text is white space only.
Blank(data) == \A i \in 1..Len(data) : data[i] \in Spaces

\* C27: a RecordOutput whose cleaned text is empty, as that of a chunk of white
\* space is, changes nothing: buffer, byte counter, last-output text, repeat
\* counter and batches stay as they were.
C27_EmptyOutputDropped ==
  [][ \A data \in OutChunks :
        RecordOutput(data) /\ (Blank(data) \/ cleanForTranscript(data) = <<>>)
        => UNCHANGED <<trBuffer, bufferBytes, lastOutput, dupCount, batches, flushTimer>> ]_vars

\* A chunk of white space came while a frame was buffered and counted once.
C27_Witness ==
  /\ recCall = [op |-> "RecordOutput", res |-> "empty"]
  /\ trBuffer # <<>>
  /\ bufferBytes > 0
  /\ dupCount = 1
\* The flush timer is to expire before the clock of the model stops, or has
\* expired and its function is waiting for tr.mu.
FlushInSight ==
  \/ firedFlushes > 0
  \/ flushTimer.active /\ flushTimer.when <= MaxRecTime

\* Every entry accepted has left in a batch.
AllDispatched == Len(Concat(batches)) = Len(accepted)

AllLines == Concat(batches) \o JsonLines(trBuffer)

\* The line is that of a summary entry.
IsSummaryLine(line) ==
  /\ line.type = "output"
  /\ \E n \in 1..MaxDup : line.text = JsonEscape(RepeatedText(n))

\* The number of summary lines among the lines.
Summaries(lines) == Cardinality({i \in 1..Len(lines) : IsSummaryLine(lines[i])})

\* C35: a summary entry is appended only by a RecordOutput that stores a new
\* output entry right after it; the function of the flush timer, RecordInput
\* and Stop, with the flushes they make, append no summary and leave the
\* last-output text and the repeat counter as they were; and on a stopped
\* recorder no step appends a summary or changes the counter, so a count that
\* is pending at Stop is in no batch.
C35_SummaryOnlyWithNewOutput ==
  [][ /\ Summaries(AllLines') # Summaries(AllLines)
         => /\ \E data \in OutChunks : RecordOutputStep(data, "stored")
            /\ dupCount > 0
            /\ Summaries(AllLines') = Summaries(AllLines) + 1
            /\ Len(AllLines') = Len(AllLines) + 2
            /\ IsSummaryLine(AllLines'[Len(AllLines') - 1])
            /\ AllLines'[Len(AllLines')].text = JsonEscape(lastOutput')
      /\ (FlushCallback \/ RecStop \/ \E data \in InChunks : RecordInput(data))
         => /\ UNCHANGED <<lastOutput, dupCount>>
            /\ Summaries(AllLines') = Summaries(AllLines)
      /\ trStopped
         => /\ UNCHANGED <<lastOutput, dupCount, batches>>
            /\ Summaries(AllLines') = Summaries(AllLines) ]_vars

\* A frame was flushed at the threshold together with an input entry that
\* followed it, and the same frame, coming next, was counted as a repeat.
C35_Witness ==
  /\ recCall = [op |-> "RecordOutput", res |-> "repeat"]
  /\ dupCount > 0
  /\ trBuffer = <<>>
  /\ batches # <<>>
  /\ accepted[Len(accepted)].type = "input"
  /\ accepted[Len(accepted) - 1].text = lastOutput

\* ---- the properties of the functions ----
\* The text has three newlines in a row.
HasTriple(t) == \E i \in 1..(Len(t) - 2) : t[i] = NL /\ t[i + 1] = NL /\ t[i + 2] = NL

\* The text begins or ends with white space.
HasOuterSpace(t) == t # <<>> /\ (t[1] \in Spaces \/ t[Len(t)] \in Spaces)

\* The text has the character c.
HasChar(t, c) == \E i \in 1..Len(t) : t[i] = c

\* C28: the text cleanForTranscript returns has no carriage return, no three
\* newlines in a row and no white space at either end; a text that has none
\* of these and no escape character, single and double newlines included, is
\* returned as it is.
C28_CleanedText ==
  returned.of = "cleanForTranscript" =>
    /\ ~HasChar(returned.value, "\r")
    /\ ~HasTriple(returned.value)
    /\ ~HasOuterSpace(returned.value)
    /\ ~HasChar(givenText, ESC) /\ ~HasChar(givenText, "\r") /\ ~HasTriple(givenText)
         /\ ~HasOuterSpace(givenText) => returned.value = givenText

\* Four newlines between two letters have become two.
C28_Witness ==
  /\ returned.of = "cleanForTranscript"
  /\ givenText = <<"a", NL, NL, NL, NL, "a">>
  /\ returned.value = <<"a", NL, NL, "a">>

\* s is ESC [, digits and semicolons, one letter.
IsCsi(s) ==
  /\ Len(s) >= 3
  /\ s[1] = ESC /\ s[2] = "["
  /\ \A k \in 3..(Len(s) - 1) : s[k] \in Digits \cup {";"}
  /\ s[Len(s)] \in Letters

\* s is ESC ], anything but BEL, BEL.
IsOsc(s) ==
  /\ Len(s) >= 3
  /\ s[1] = ESC /\ s[2] = "]"
  /\ \A k \in 3..(Len(s) - 1) : s[k] # BEL
  /\ s[Len(s)] = BEL

\* C29: stripAnsi returns a text without escape character as it is; of a text
\* whose first escape character begins a CSI or an OSC sequence it returns
\* what precedes the sequence followed by what it returns for the rest; the
\* inputs of TestStripAnsi give "green", "hello" and "rest".
C29_StripAnsiRemovesSequences ==
  returned.of = "stripAnsi" =>
    LET t == givenText
        out == returned.value
    IN /\ ~HasChar(t, ESC) => out = t
       /\ \A i \in 1..Len(t) : \A j \in i..Len(t) :
            /\ ~HasChar(SubSeq(t, 1, i - 1), ESC)
            /\ IsCsi(SubSeq(t, i, j)) \/ IsOsc(SubSeq(t, i, j))
            => out = SubSeq(t, 1, i - 1) \o stripAnsi(SubSeq(t, j + 1, Len(t)))
       /\ t = <<ESC, "[", "3", "2", "m", "g", "r", "e", "e", "n", ESC, "[", "0", "m">>
            => out = <<"g", "r", "e", "e", "n">>
       /\ t = <<ESC, "[", "1", ";", "1", "H", "h", "e", "l", "l", "o">>
            => out = <<"h", "e", "l", "l", "o">>
       /\ t = <<ESC, "]", "0", ";", "M", "y", " ", "T", "i", "t", "l", "e", BEL,
                "r", "e", "s", "t">>
            => out = <<"r", "e", "s", "t">>

\* The title sequence of TestStripAnsi has been removed and "rest" is left.
C29_Witness ==
  /\ returned.of = "stripAnsi"
  /\ Len(givenText) = 17 /\ IsOsc(SubSeq(givenText, 1, 13))
  /\ returned.value = <<"r", "e", "s", "t">>

\* The last three lines of the text: what follows the third newline from the
\* end, or the whole text when it has fewer than three newlines.
LastThreeLines(t) ==
  LET nls == {i \in 1..Len(t) : t[i] = NL}
  IN IF Cardinality(nls) <= 2
     THEN t
     ELSE LET cut == CHOOSE i \in nls : Cardinality({j \in nls : j >= i}) = 3
          IN SubSeq(t, cut + 1, Len(t))

\* C30: the candidate is StatusNeedsInput exactly when the last three lines of
\* the window, with the escape sequences stripped, match a prompt pattern,
\* and StatusActive otherwise; the prompts of TestMatchesPrompt give
\* StatusNeedsInput, and its plain texts, the empty text and a prompt that is
\* no longer among the last three lines give StatusActive.
C30_CandidateFromLastLines ==
  returned.of = "Candidate" =>
    /\ returned.value \in {StatusNeedsInput, StatusActive}
    /\ returned.value = StatusNeedsInput
         <=> matchesPrompt(stripAnsi(LastThreeLines(givenText)))
    /\ givenText \in PromptSeeds => returned.value = StatusNeedsInput
    /\ givenText \in PlainSeeds => returned.value = StatusActive
    /\ (\A i \in 1..Len(givenText) : givenText[i] \in {"a", " ", NL})
         => returned.value = StatusActive

\* A prompt on the first of four lines is not seen.
C30_Witness ==
  /\ returned.of = "Candidate"
  /\ givenText = <<">", NL, NL, NL>>
  /\ returned.value = StatusActive
====
